---------------------------- MODULE Spec2Model ----------------------------
(***************************************************************************)
(* A model of the pbimol Power BI visual (src/src/visual.ts): the text     *)
(* sanitizer and format classifier, the row extractor, and the life cycle  *)
(* of the viewer pool under the two rendering engines, 3Dmol.js and        *)
(* Molstar.                                                                *)
(*                                                                         *)
(* A string is a sequence of characters; a character is a one-element      *)
(* token ("A", "1", " ") or a named token for a character that has no      *)
(* printable form: "LF", "CR", "TAB", "VT", "FF", "NUL", "DEL", "BOM",     *)
(* "NBSP", "BSL" (backslash), "DQ" (double quote), "SQ" (single quote).    *)
(***************************************************************************)
EXTENDS Integers, Sequences, FiniteSets, TLC

(***************************************************************************)
(* Bounds of the model.                                                    *)
(***************************************************************************)
\* the largest number of rows of one host table
MaxRows == 2
\* the number of update() calls the host delivers in one behaviour
MaxUpdates == 2
\* the number of engine calls that fail in one behaviour
MaxFaults == 1
\* the latest call of a style application that may be the failing one
MaxFailStep == 2

(***************************************************************************)
(* Characters and the string primitives of the JavaScript runtime.        *)
(***************************************************************************)
\* null or undefined in a cell of a row: no string is equal to it
Null == <<"NULL">>

Digit == {"0", "1", "2", "3", "4", "5", "6", "7", "8", "9"}

\* String.prototype.trim and the regular expression class \s
WhiteSpace == {" ", "TAB", "LF", "CR", "VT", "FF", "NBSP", "BOM"}

\* the class [\x00-\x08\x0B\x0C\x0E-\x1F\x7F], by its members the model uses
ControlChar == {"NUL", "VT", "FF", "DEL"}

UpperLetters == <<"A", "B", "C", "D", "E", "F", "G", "H", "I", "J", "K", "L", "M",
                  "N", "O", "P", "Q", "R", "S", "T", "U", "V", "W", "X", "Y", "Z">>

LowerLetters == <<"a", "b", "c", "d", "e", "f", "g", "h", "i", "j", "k", "l", "m",
                  "n", "o", "p", "q", "r", "s", "t", "u", "v", "w", "x", "y", "z">>

LowerChar(c) ==
    IF \E k \in 1..26 : UpperLetters[k] = c
    THEN LowerLetters[CHOOSE k \in 1..26 : UpperLetters[k] = c]
    ELSE c

UpperChar(c) ==
    IF \E k \in 1..26 : LowerLetters[k] = c
    THEN UpperLetters[CHOOSE k \in 1..26 : LowerLetters[k] = c]
    ELSE c

ToLowerCase(s) == [k \in 1..Len(s) |-> LowerChar(s[k])]

ToUpperCase(s) == [k \in 1..Len(s) |-> UpperChar(s[k])]

StartsWith(s, p) == Len(p) <= Len(s) /\ SubSeq(s, 1, Len(p)) = p

EndsWith(s, p) == Len(p) <= Len(s) /\ SubSeq(s, Len(s) - Len(p) + 1, Len(s)) = p

Includes(s, p) == \E k \in 0..(Len(s) - Len(p)) : SubSeq(s, k + 1, k + Len(p)) = p

\* s.substring(0, n)
Substring0(s, n) == SubSeq(s, 1, IF n < Len(s) THEN n ELSE Len(s))

RECURSIVE TrimStart(_)
TrimStart(s) ==
    IF s # <<>> /\ Head(s) \in WhiteSpace THEN TrimStart(Tail(s)) ELSE s

RECURSIVE TrimEnd(_)
TrimEnd(s) ==
    IF s # <<>> /\ s[Len(s)] \in WhiteSpace THEN TrimEnd(SubSeq(s, 1, Len(s) - 1)) ELSE s

Trim(s) == TrimEnd(TrimStart(s))

\* s.replace(/p/g, r) for a literal pattern p: leftmost matches, not overlapping
RECURSIVE ReplaceAll(_, _, _)
ReplaceAll(s, p, r) ==
    IF s = <<>> THEN <<>>
    ELSE IF StartsWith(s, p) THEN r \o ReplaceAll(SubSeq(s, Len(p) + 1, Len(s)), p, r)
    ELSE <<Head(s)>> \o ReplaceAll(Tail(s), p, r)

\* s.replace(/[class]/g, '')
RemoveChars(s, class) == SelectSeq(s, LAMBDA c : c \notin class)

\* s.split('\n'): always at least one line
RECURSIVE Split(_)
Split(s) ==
    IF \E k \in 1..Len(s) : s[k] = "LF"
    THEN LET k == CHOOSE j \in 1..Len(s) : s[j] = "LF" /\ \A h \in 1..(j - 1) : s[h] # "LF"
         IN  <<SubSeq(s, 1, k - 1)>> \o Split(SubSeq(s, k + 1, Len(s)))
    ELSE <<s>>

\* /^\d+$/.test(s)
AllDigits(s) == s # <<>> /\ \A k \in 1..Len(s) : s[k] \in Digit


(***************************************************************************)
(* Literals of the source.                                                 *)
(***************************************************************************)
FmtPdb == <<"p", "d", "b">>
FmtCif == <<"c", "i", "f">>
FmtMol2 == <<"m", "o", "l", "2">>
FmtSdf == <<"s", "d", "f">>
FmtXyz == <<"x", "y", "z">>
FmtCube == <<"c", "u", "b", "e">>

SUPPORTED_FORMATS == {FmtPdb, FmtCif, FmtMol2, FmtSdf, FmtXyz, FmtCube}

PDB_RECORD_TYPES ==
    { <<"H", "E", "A", "D", "E", "R">>, <<"A", "T", "O", "M">>,
      <<"H", "E", "T", "A", "T", "M">>, <<"M", "O", "D", "E", "L">>,
      <<"C", "O", "M", "P", "N", "D">>, <<"S", "O", "U", "R", "C", "E">>,
      <<"T", "I", "T", "L", "E">>, <<"R", "E", "M", "A", "R", "K">>,
      <<"S", "E", "Q", "R", "E", "S">>, <<"C", "R", "Y", "S", "T", "1">> }

StrATOM == <<"A", "T", "O", "M">>
StrHETATM == <<"H", "E", "T", "A", "T", "M">>
StrDataUnderscore == <<"d", "a", "t", "a", "_">>
StrEntryId == <<"_", "e", "n", "t", "r", "y", ".", "i", "d">>
StrAtomSite == <<"_", "a", "t", "o", "m", "_", "s", "i", "t", "e", ".">>
StrLoop == <<"l", "o", "o", "p", "_">>
StrTriposUpper == <<"@", "<", "T", "R", "I", "P", "O", "S", ">">>
StrTriposLower == <<"@", "<", "t", "r", "i", "p", "o", "s", ">">>
StrV2000 == <<"V", "2", "0", "0", "0">>
StrV3000 == <<"V", "3", "0", "0", "0">>
StrMEnd == <<"M", " ", " ", "E", "N", "D">>
StrCubeFile == <<"C", "U", "B", "E", " ", "F", "I", "L", "E">>
StrNull == <<"n", "u", "l", "l">>
StrUndefined == <<"u", "n", "d", "e", "f", "i", "n", "e", "d">>

(***************************************************************************)
(* normalizePdbData: the data sanitizer.                                   *)
(***************************************************************************)
\* the surrounding quotes: one layer of matching " or ' is sliced off
StripQuotes(s) ==
    IF (StartsWith(s, <<"DQ">>) /\ EndsWith(s, <<"DQ">>))
       \/ (StartsWith(s, <<"SQ">>) /\ EndsWith(s, <<"SQ">>))
    THEN SubSeq(s, 2, Len(s) - 1)
    ELSE s

\* the literal two-character escapes \r\n, \n, \r become a newline
UnescapeNewlines(s) ==
    ReplaceAll(ReplaceAll(ReplaceAll(s, <<"BSL", "r", "BSL", "n">>, <<"LF">>),
                          <<"BSL", "n">>, <<"LF">>),
               <<"BSL", "r">>, <<"LF">>)

\* real CRLF and CR become LF
NormalizeLineEndings(s) == ReplaceAll(ReplaceAll(s, <<"CR", "LF">>, <<"LF">>), <<"CR">>, <<"LF">>)

\* a byte-order mark at the very start is dropped
StripBom(s) == IF s # <<>> /\ Head(s) = "BOM" THEN Tail(s) ELSE s

normalizePdbData(data) ==
    IF data = <<>> THEN <<>>
    ELSE LET unquoted  == StripQuotes(data)
             unescaped == UnescapeNewlines(unquoted)
             lf        == NormalizeLineEndings(unescaped)
             noBom     == StripBom(lf)
             noCtl     == RemoveChars(noBom, ControlChar)
             spaces    == ReplaceAll(noCtl, <<"NBSP">>, <<" ">>)
         IN  Trim(spaces)

(***************************************************************************)
(* detectFormat: the format classifier.                                    *)
(***************************************************************************)
\* first position at or after k whose character is outside class
RECURSIVE SkipClass(_, _, _)
SkipClass(s, k, class) ==
    IF k <= Len(s) /\ s[k] \in class THEN SkipClass(s, k + 1, class) ELSE k

\* -?\d+ at position k: the position after it, or 0
MatchInt(s, k) ==
    LET k1 == IF k <= Len(s) /\ s[k] = "-" THEN k + 1 ELSE k
        k2 == SkipClass(s, k1, Digit)
    IN  IF k2 > k1 THEN k2 ELSE 0

\* \s+-?\d+\.\d+ at position k: the position after it, or 0
MatchSpaceDecimal(s, k) ==
    LET k1 == SkipClass(s, k, WhiteSpace)
        k2 == IF k = 0 \/ k1 = k THEN 0 ELSE MatchInt(s, k1)
        k3 == IF k2 = 0 \/ k2 > Len(s) THEN 0 ELSE IF s[k2] = "." THEN k2 + 1 ELSE 0
        k4 == IF k3 = 0 THEN 0 ELSE SkipClass(s, k3, Digit)
    IN  IF k3 # 0 /\ k4 > k3 THEN k4 ELSE 0

\* /^\s*-?\d+\s+-?\d+\.\d+\s+-?\d+\.\d+\s+-?\d+\.\d+/.test(line)
CubeGridLine(line) ==
    LET k1 == MatchInt(line, SkipClass(line, 1, WhiteSpace))
        k2 == MatchSpaceDecimal(line, k1)
        k3 == MatchSpaceDecimal(line, k2)
        k4 == MatchSpaceDecimal(line, k3)
    IN  k1 # 0 /\ k2 # 0 /\ k3 # 0 /\ k4 # 0

\* a hint check that takes the hint as written, neither lower-cased nor trimmed
HintIsExact(providedFormat) == providedFormat \in SUPPORTED_FORMATS

\* providedFormat is a string; "" is falsy
HintIsSupported(providedFormat) ==
    providedFormat # <<>> /\ Trim(ToLowerCase(providedFormat)) \in SUPPORTED_FORMATS

LooksCif(t) ==
    Includes(t, StrDataUnderscore) \/ Includes(t, StrEntryId)
    \/ Includes(t, StrAtomSite) \/ Includes(t, StrLoop)

LooksMol2(t) == Includes(t, StrTriposUpper) \/ Includes(t, StrTriposLower)

LooksSdf(t) == Includes(t, StrV2000) \/ Includes(t, StrV3000) \/ Includes(t, StrMEnd)

\* an atom-count rule that wants four lines
LooksXyzFourLines(lines) == Len(lines) >= 4 /\ AllDigits(Trim(lines[1]))

LooksXyz(lines) == Len(lines) >= 2 /\ AllDigits(Trim(lines[1]))

LooksCube(t, lines) ==
    Includes(t, StrCubeFile) \/ (Len(lines) > 6 /\ CubeGridLine(lines[3]))

LooksPdb(lines) ==
    \E k \in 1..(IF Len(lines) < 20 THEN Len(lines) ELSE 20) :
        ToUpperCase(Trim(Substring0(lines[k], 6))) \in PDB_RECORD_TYPES

\* the content rules with the pdb keyword rule moved to the front
SniffKeywordFirst(trimmed, lines) ==
    IF LooksPdb(lines) THEN FmtPdb
    ELSE IF LooksCif(trimmed) THEN FmtCif
    ELSE IF LooksMol2(trimmed) THEN FmtMol2
    ELSE IF LooksSdf(trimmed) THEN FmtSdf
    ELSE IF LooksXyz(lines) THEN FmtXyz
    ELSE IF LooksCube(trimmed, lines) THEN FmtCube
    ELSE FmtPdb

\* the content rules, in the order of the source
Sniff(trimmed, lines) ==
    IF LooksCif(trimmed) THEN FmtCif
    ELSE IF LooksMol2(trimmed) THEN FmtMol2
    ELSE IF LooksSdf(trimmed) THEN FmtSdf
    ELSE IF LooksXyz(lines) THEN FmtXyz
    ELSE IF LooksCube(trimmed, lines) THEN FmtCube
    ELSE IF LooksPdb(lines) THEN FmtPdb
    ELSE FmtPdb

SniffTrimmed(trimmed) == Sniff(trimmed, Split(trimmed))

detectFormat(data, providedFormat) ==
    IF HintIsSupported(providedFormat) THEN Trim(ToLowerCase(providedFormat))
    ELSE SniffTrimmed(Trim(data))

(***************************************************************************)
(* isValidStructureData: the validity check of the row extractor.          *)
(***************************************************************************)
\* lines.length >= 3 && /^\d+$/.test(lines[0].trim())
XyzLines(lines) == Len(lines) >= 3 /\ AllDigits(Trim(lines[1]))

\* a validity check that looks at the content also under a recognized hint
ValidByContentOnly(normalized, format, providedFormat) ==
    \/ Includes(normalized, StrATOM)
    \/ Includes(normalized, StrHETATM)
    \/ Includes(normalized, StrAtomSite)
    \/ Includes(normalized, StrV2000)
    \/ Includes(normalized, StrV3000)
    \/ format = FmtCube

\* the checks made on the normalized text and the format detected from it
ValidNormalized(normalized, format, providedFormat) ==
    IF HintIsSupported(providedFormat) THEN Len(normalized) > 10
    ELSE \/ Includes(normalized, StrATOM)
         \/ Includes(normalized, StrHETATM)
         \/ Includes(normalized, StrAtomSite)
         \/ Includes(normalized, StrTriposUpper \o StrATOM)
         \/ Includes(normalized, StrTriposLower \o ToLowerCase(StrATOM))
         \/ Includes(normalized, StrV2000)
         \/ Includes(normalized, StrV3000)
         \/ XyzLines(Split(normalized))
         \/ format = FmtCube

\* the format is detected from the normalized text
ValidDetected(normalized, providedFormat) ==
    ValidNormalized(normalized, detectFormat(normalized, providedFormat), providedFormat)

isValidStructureData(data, providedFormat) ==
    IF data = <<>> THEN FALSE
    ELSE ValidDetected(normalizePdbData(data), providedFormat)

(***************************************************************************)
(* detectFormatFromPath: the extension classifier.                         *)
(***************************************************************************)
detectFormatFromPath(filePath) ==
    LET lowerPath == ToLowerCase(filePath)
    IN  IF EndsWith(lowerPath, <<".">> \o FmtPdb) THEN FmtPdb
        ELSE IF EndsWith(lowerPath, <<".">> \o FmtCif)
                \/ EndsWith(lowerPath, <<".", "m", "m">> \o FmtCif) THEN FmtCif
        ELSE IF EndsWith(lowerPath, <<".">> \o FmtMol2) THEN FmtMol2
        ELSE IF EndsWith(lowerPath, <<".">> \o FmtSdf)
                \/ EndsWith(lowerPath, <<".", "m", "o", "l">>) THEN FmtSdf
        ELSE IF EndsWith(lowerPath, <<".">> \o FmtXyz) THEN FmtXyz
        ELSE IF EndsWith(lowerPath, <<".">> \o FmtCube) THEN FmtCube
        ELSE FmtPdb


(***************************************************************************)
(* The host's input: a data view is absent or a table of role-tagged       *)
(* columns and rows; a cell of a row is Null or a string.                  *)
(***************************************************************************)
StandardColumns == <<{"proteinData"}, {"titleData"}, {"formatData"}, {"filePathData"}>>

TextA == <<"A", "T", "O", "M", " ", "1">>
PathP == <<"u", ".", "c", "i", "f">>

RowA == <<TextA, <<"a">>, Null, Null>>
RowP == <<Null, <<"p">>, Null, PathP>>
RowEmpty == <<<<>>, <<"e">>, Null, Null>>

SampleRows == {RowA, RowP, RowEmpty}

SeqsUpTo(S, n) == UNION {[1..k -> S] : k \in 0..n}

\* options.dataViews[0] is undefined, or has no table
NoDataView == [present |-> FALSE, columns |-> <<>>, rows |-> <<>>]

DataViews ==
    {NoDataView}
    \cup {[present |-> TRUE, columns |-> StandardColumns, rows |-> r] :
             r \in SeqsUpTo(SampleRows, MaxRows)}
    \cup {[present |-> TRUE, columns |-> <<>>, rows |-> <<RowA>>]}

\* the lowest index (from 0) of a column tagged with the role, or -1
RoleIndex(columns, role) ==
    IF \E k \in 1..Len(columns) : role \in columns[k]
    THEN (CHOOSE k \in 1..Len(columns) :
              role \in columns[k] /\ \A h \in 1..(k - 1) : role \notin columns[h]) - 1
    ELSE -1

proteinIndex(columns) ==
    IF RoleIndex(columns, "proteinData") = -1 /\ Len(columns) > 0
    THEN 0
    ELSE RoleIndex(columns, "proteinData")

\* String(row[index]).trim() when the index is resolved and the cell is set, else ""
CellText(row, index) ==
    IF index >= 0 /\ index < Len(row) /\ row[index + 1] # Null
    THEN Trim(row[index + 1])
    ELSE <<>>

Present(structureData) ==
    structureData # <<>> /\ structureData # StrNull /\ structureData # StrUndefined

\* a row filter whose path branch pushes without looking at the path
KeepUnguarded(structureData, title, format, filePath) ==
    IF Present(structureData)
    THEN IF isValidStructureData(structureData, format)
         THEN <<[structure |-> structureData, title |-> title,
                 format |-> format, filePath |-> filePath]>>
         ELSE <<>>
    ELSE <<[structure |-> <<>>, title |-> title, format |-> format, filePath |-> filePath]>>

\* a row filter that falls back to the path when the text is not valid
KeepFallsBack(structureData, title, format, filePath) ==
    IF Present(structureData) /\ isValidStructureData(structureData, format)
    THEN <<[structure |-> structureData, title |-> title,
            format |-> format, filePath |-> filePath]>>
    ELSE IF filePath # <<>>
    THEN <<[structure |-> <<>>, title |-> title, format |-> format, filePath |-> filePath]>>
    ELSE <<>>

\* a row filter that pushes a record for every row
KeepEveryRow(structureData, title, format, filePath) ==
    <<[structure |-> IF Present(structureData) THEN structureData ELSE <<>>,
       title |-> title, format |-> format, filePath |-> filePath]>>

\* the record pushed for one row, as a sequence of zero or one records
Keep(structureData, title, format, filePath) ==
    IF Present(structureData)
    THEN IF isValidStructureData(structureData, format)
         THEN <<[structure |-> structureData, title |-> title,
                 format |-> format, filePath |-> filePath]>>
         ELSE <<>>
    ELSE IF filePath # <<>>
    THEN <<[structure |-> <<>>, title |-> title, format |-> format, filePath |-> filePath]>>
    ELSE <<>>

RowRecord(columns, row) ==
    Keep(CellText(row, proteinIndex(columns)),
         CellText(row, RoleIndex(columns, "titleData")),
         ToLowerCase(CellText(row, RoleIndex(columns, "formatData"))),
         CellText(row, RoleIndex(columns, "filePathData")))

\* a row loop that puts each record in front of the earlier ones
RECURSIVE validRowsNewestFirst(_, _)
validRowsNewestFirst(columns, rows) ==
    IF rows = <<>> THEN <<>>
    ELSE validRowsNewestFirst(columns, Tail(rows)) \o RowRecord(columns, Head(rows))

RECURSIVE validRows(_, _)
validRows(columns, rows) ==
    IF rows = <<>> THEN <<>>
    ELSE RowRecord(columns, Head(rows)) \o validRows(columns, Tail(rows))

\* which path of update() a data view takes
NoData(dataView) == ~dataView.present \/ Len(dataView.rows) = 0

NoProteinColumn(dataView) == ~NoData(dataView) /\ proteinIndex(dataView.columns) = -1

\* the record list of every data view, computed once
Extracted ==
    [dataView \in DataViews |->
        IF NoData(dataView) \/ NoProteinColumn(dataView) THEN <<>>
        ELSE validRows(dataView.columns, dataView.rows)]


(***************************************************************************)
(* The formatting settings read by update().                               *)
(***************************************************************************)
Engines == {"3dmol", "molstar"}

Chains == <<"A", "B", "C", "D", "E", "F">>

DefaultSettings ==
    [style |-> "cartoon", colorScheme |-> "default", backgroundColor |-> "#FFFFFF",
     spin |-> FALSE, useCustomChainColors |-> FALSE,
     chainColorMap |-> [c \in {"A", "B", "C", "D", "E", "F"} |->
                          CASE c = "A" -> "#00FF00" [] c = "B" -> "#00FFFF"
                            [] c = "C" -> "#FF00FF" [] c = "D" -> "#FFFF00"
                            [] c = "E" -> "chainEColor" [] OTHER -> "chainFColor"],
     columns |-> 0, showTitles |-> TRUE, titlePosition |-> "top-center",
     showSurface |-> FALSE, surfaceOpacity |-> 70,
     surfaceColorScheme |-> "default", surfaceColor |-> "#808080"]

\* the settings the pool life cycle is explored under
Settings == {DefaultSettings}

\* a mapping that hands the option name to the engine as it is
SchemeNameAsWritten(colorScheme) == IF colorScheme = "default" THEN "none" ELSE colorScheme

\* colorScheme option -> 3Dmol colorscheme name ("none": the key is not set)
SchemeName(colorScheme) ==
    CASE colorScheme = "chain" -> "chain"
      [] colorScheme = "residue" -> "amino"
      [] colorScheme = "spectrum" -> "spectrum"
      [] colorScheme = "ss" -> "ssJmol"
      [] OTHER -> "none"

\* a style or surface configuration object; "none" and 0: the key is not set
Conf(colorscheme, color, opacity) ==
    [colorscheme |-> colorscheme, color |-> color, opacity |-> opacity]

NoConf == Conf("none", "none", 0)

styleConfig(cfg) == Conf(SchemeName(cfg.colorScheme), "none", 0)

\* opacity is kept in percent: the source hands surfaceOpacity / 100 to the engine
surfaceConfig(cfg) ==
    Conf(IF cfg.surfaceColorScheme = "custom" THEN "none"
         ELSE SchemeName(cfg.surfaceColorScheme),
         IF cfg.surfaceColorScheme = "custom" THEN cfg.surfaceColor ELSE "none",
         cfg.surfaceOpacity)

\* the geometry key a style option is rendered with ("none": no setStyle call)
Geometry(style) ==
    IF style \in {"cartoon", "stick", "line", "cross", "sphere"} THEN style
    ELSE IF style = "surface" THEN "cartoon"
    ELSE "none"

EngineCall(fn, sel, geom, conf) == [fn |-> fn, sel |-> sel, geom |-> geom, conf |-> conf]

\* the engine calls of applyStyleToViewer, in order
applyStyleToViewer(cfg) ==
    LET main ==
            IF Geometry(cfg.style) = "none" THEN <<>>
            ELSE IF cfg.useCustomChainColors
            THEN [k \in 1..Len(Chains) |->
                    EngineCall("setStyle", Chains[k], Geometry(cfg.style),
                               [styleConfig(cfg) EXCEPT !.color = cfg.chainColorMap[Chains[k]]])]
            ELSE <<EngineCall("setStyle", "all", Geometry(cfg.style), styleConfig(cfg))>>
        surface ==
            IF cfg.showSurface
            THEN <<EngineCall("addSurface", "all", "VDW", surfaceConfig(cfg))>>
            ELSE <<>>
    IN  main \o surface
        \o <<EngineCall("zoomTo", "all", "none", NoConf),
             EngineCall("spin", "all", IF cfg.spin THEN "on" ELSE "off", NoConf),
             EngineCall("render", "all", "none", NoConf)>>

(***************************************************************************)
(* The state of the visual.                                                *)
(*                                                                         *)
(* An object is one container element together with the engine instance   *)
(* created in it; objects are numbered in creation order.  The pool        *)
(* (this.viewers) and the grid element hold object numbers.                *)
(***************************************************************************)
VARIABLES
    viewers,         \* this.viewers: the objects of the pool cells, in order
    currentEngine,   \* this.currentEngine
    gridContainer,   \* the containers attached to the grid element, in order
    cells,           \* every object created so far: its engine instance and elements
    tasks,           \* the updateWithMolstar calls in flight
    downloads,       \* the $3Dmol.download calls in flight
    clears,          \* the un-awaited plugin.clear() calls in flight
    epoch,           \* the number of update() calls delivered
    last,            \* the latest update() call: what it was given and did
    done,            \* the update whose work ended most recently: how it ended
    faults,          \* the number of engine calls that have failed so far
    probe            \* a call of one of the pure functions: its input and its result

vars == <<viewers, currentEngine, gridContainer, cells, tasks, downloads, clears,
          epoch, last, done, faults, probe>>

\* no pure function is under examination
NoProbe == [op |-> "none"]

\* the elements of a sequence
Range(seq) == {seq[k] : k \in 1..Len(seq)}

\* node.remove()
Detach(grid, id) == SelectSeq(grid, LAMBDA x : x # id)

\* a container with its title element, and the engine instance made in it
NewCell(engine, instance, e) ==
    [engine |-> engine, instance |-> instance, disposed |-> FALSE,
     backgroundColor |-> "unset", title |-> Null, owner |-> <<0, 0>>,
     models |-> <<>>, surfaces |-> 0, style |-> <<>>, born |-> e]

\* the synchronous part of update() works on the pool, the objects and the grid
Heap(v, c, g) == [viewers |-> v, cells |-> c, grid |-> g]


(***************************************************************************)
(* The pool operations of the grid layout.                                 *)
(***************************************************************************)
\* disposeMolstarPlugin for a Molstar cell, and container.remove(); a 3Dmol
\* viewer gets no call at all
Discard(c, id) ==
    IF c[id].engine = "molstar" THEN [c EXCEPT ![id].disposed = TRUE] ELSE c

RECURSIVE DiscardAll(_, _)
DiscardAll(c, ids) ==
    IF ids = <<>> THEN c ELSE DiscardAll(Discard(c, Head(ids)), Tail(ids))

RECURSIVE DetachAll(_, _)
DetachAll(grid, ids) ==
    IF ids = <<>> THEN grid ELSE DetachAll(Detach(grid, Head(ids)), Tail(ids))

clearAllViewers(h) ==
    Heap(<<>>, DiscardAll(h.cells, h.viewers), DetachAll(h.grid, h.viewers))

\* the cells the removal loop pops, last first
Excess(v, count) ==
    IF Len(v) > count THEN [k \in 1..(Len(v) - count) |-> v[Len(v) + 1 - k]] ELSE <<>>

\* the removal loop taking the first cell of the pool (shift) instead of the last
ShiftExcess(h, count) ==
    IF Len(h.viewers) > count
    THEN Heap(SubSeq(h.viewers, Len(h.viewers) - count + 1, Len(h.viewers)),
              DiscardAll(h.cells, SubSeq(h.viewers, 1, Len(h.viewers) - count)),
              DetachAll(h.grid, SubSeq(h.viewers, 1, Len(h.viewers) - count)))
    ELSE h

\* while (this.viewers.length > count) pop, dispose, remove
RemoveExcess(h, count) ==
    Heap(SubSeq(h.viewers, 1, IF Len(h.viewers) > count THEN count ELSE Len(h.viewers)),
         DiscardAll(h.cells, Excess(h.viewers, count)),
         DetachAll(h.grid, Excess(h.viewers, count)))

\* while (this.viewers.length < count) under 3Dmol: the container is attached,
\* then $3Dmol.createViewer is called; the createFails-th call throws
RECURSIVE Grow3Dmol(_, _, _, _, _)
Grow3Dmol(h, count, e, made, createFails) ==
    IF Len(h.viewers) >= count THEN [heap |-> h, threw |-> FALSE]
    ELSE LET id == Len(h.cells) + 1
         IN  IF made + 1 = createFails
             THEN [heap |-> Heap(h.viewers,
                                 Append(h.cells, NewCell("3dmol", "none", e)),
                                 Append(h.grid, id)),
                   threw |-> TRUE]
             ELSE Grow3Dmol(Heap(Append(h.viewers, id),
                                 Append(h.cells, NewCell("3dmol", "live", e)),
                                 Append(h.grid, id)),
                            count, e, made + 1, createFails)

\* viewer.setBackgroundColor on every 3Dmol cell of the pool
SetBackgrounds(c, v, backgroundColor) ==
    [id \in 1..Len(c) |->
        IF id \in Range(v) /\ c[id].engine = "3dmol"
        THEN [c[id] EXCEPT !.backgroundColor = backgroundColor]
        ELSE c[id]]

\* the loop over the pool after the growth loop, reached unless that threw
Backgrounds(grown, backgroundColor) ==
    IF grown.threw THEN grown
    ELSE [heap |-> [grown.heap EXCEPT
                      !.cells = SetBackgrounds(grown.heap.cells, grown.heap.viewers,
                                               backgroundColor)],
          threw |-> FALSE]

setupViewerGrid3Dmol(h, count, cfg, e, createFails) ==
    Backgrounds(Grow3Dmol(RemoveExcess(h, count), count, e, 0, createFails),
                cfg.backgroundColor)

(***************************************************************************)
(* What an engine holds after a load: the data or the address it was       *)
(* given, and the format.                                                  *)
(***************************************************************************)
Model(source, data, format) == [source |-> source, data |-> data, format |-> format]

\* a test that takes the path whenever there is one
PathWhenGiven(row) == row.filePath # <<>>

\* validRows[i].structure === "" && validRows[i].filePath !== ""
PathOnly(row) == row.structure = <<>> /\ row.filePath # <<>>

\* validRows[i].format || this.detectFormatFromPath(filePath)
PathFormat(row) == IF row.format # <<>> THEN row.format ELSE detectFormatFromPath(row.filePath)

\* the model a record is loaded as
TextModel(structureData, providedFormat) ==
    Model("text", structureData, detectFormat(structureData, providedFormat))

ModelOf(row) ==
    IF PathOnly(row)
    THEN Model("url", row.filePath, PathFormat(row))
    ELSE TextModel(normalizePdbData(row.structure), row.format)

\* applyStyleToViewer on a 3Dmol viewer whose failStep-th engine call throws
\* (0: none does): the calls before it have taken effect
Styled(cell, cfg, failStep) ==
    LET calls == applyStyleToViewer(cfg)
        n     == IF failStep \in 1..Len(calls) THEN failStep - 1 ELSE Len(calls)
        made  == SubSeq(calls, 1, n)
    IN  [cell EXCEPT !.style = @ \o made,
                     !.surfaces = @ + Cardinality({k \in 1..n : made[k].fn = "addSurface"})]

StyleThrows(cfg, failStep) == failStep \in 1..Len(applyStyleToViewer(cfg))


(***************************************************************************)
(* Engine failures.  A synchronous update is given the one engine call     *)
(* that throws in it (if any): op names the call, rec the record (or the   *)
(* createViewer call) it belongs to, step the call of the style            *)
(* application.                                                            *)
(***************************************************************************)
NoFail == [op |-> "none", rec |-> 0, step |-> 0]

Failures ==
    {NoFail}
    \cup {[op |-> o, rec |-> r, step |-> 0] :
            o \in {"createViewer", "removeAllModels", "download", "addModel"},
            r \in 1..MaxRows}
    \cup {[op |-> "style", rec |-> r, step |-> k] : r \in 1..MaxRows, k \in 1..MaxFailStep}

\* a $3Dmol.download call in flight: the viewer it was given and its callback
Download(id, row, cfg, e, i) ==
    [viewer |-> id, model |-> ModelOf(row), cfg |-> cfg, epoch |-> e, rec |-> i]

\* the result of the record loop so far
Pass(c, d, threw, loaded) == [cells |-> c, downloads |-> d, threw |-> threw, loaded |-> loaded]

\* one iteration of the record loop of updateWith3Dmol, for record i
Record3Dmol(p, v, rows, i, cfg, e, fail) ==
    LET id     == v[i]
        titled == [p.cells EXCEPT ![id].title = rows[i].title, ![id].owner = <<e, i>>]
        clean  == [titled EXCEPT ![id].models = <<>>, ![id].surfaces = 0, ![id].style = <<>>]
        hit(o) == fail.op = o /\ fail.rec = i
    IN  IF titled[id].engine # "3dmol" \/ hit("removeAllModels")
        THEN \* cell.viewer is undefined, or the call throws: outside any try
             Pass(titled, p.downloads, TRUE, p.loaded)
        ELSE IF PathOnly(rows[i])
        THEN IF hit("download")
             THEN Pass(clean, p.downloads, FALSE, p.loaded \cup {i})
             ELSE Pass(clean, p.downloads \cup {Download(id, rows[i], cfg, e, i)},
                       FALSE, p.loaded \cup {i})
        ELSE IF hit("addModel")
        THEN Pass(clean, p.downloads, FALSE, p.loaded \cup {i})
        ELSE Pass([clean EXCEPT
                     ![id] = Styled([@ EXCEPT !.models = Append(@, ModelOf(rows[i]))], cfg,
                                    IF hit("style") THEN fail.step ELSE 0)],
                  p.downloads, FALSE, p.loaded \cup {i})

\* for (let i = 0; i < validRows.length; i++): an exception leaves the loop
RECURSIVE Loop3Dmol(_, _, _, _, _, _, _)
Loop3Dmol(p, v, rows, i, cfg, e, fail) ==
    IF i > Len(rows) \/ p.threw THEN p
    ELSE Loop3Dmol(Record3Dmol(p, v, rows, i, cfg, e, fail), v, rows, i + 1, cfg, e, fail)

\* updateWith3Dmol: the pool after it, the downloads it issued, whether it threw
Looped(grid, pass) ==
    [heap |-> [grid.heap EXCEPT !.cells = pass.cells],
     downloads |-> pass.downloads, threw |-> pass.threw, loaded |-> pass.loaded]

\* the record loop on the grid that was set up, reached unless the setup threw
Records3Dmol(grid, d, rows, cfg, e, fail) ==
    IF grid.threw
    THEN [heap |-> grid.heap, downloads |-> d, threw |-> TRUE, loaded |-> {}]
    ELSE Looped(grid, Loop3Dmol(Pass(grid.heap.cells, d, FALSE, {}), grid.heap.viewers,
                                rows, 1, cfg, e, fail))

updateWith3Dmol(h, d, rows, cfg, e, fail) ==
    Records3Dmol(setupViewerGrid3Dmol(h, Len(rows), cfg, e,
                                      IF fail.op = "createViewer" THEN fail.rec ELSE 0),
                 d, rows, cfg, e, fail)

\* whether the failure of a plan happens in this update
Happens3Dmol(h, rows, cfg, fail) ==
    CASE fail.op = "none" -> TRUE
      [] fail.op = "createViewer" -> fail.rec <= Len(rows) - Len(h.viewers)
      [] fail.op = "removeAllModels" -> fail.rec <= Len(rows)
      [] fail.op = "download" -> fail.rec <= Len(rows) /\ PathOnly(rows[fail.rec])
      [] fail.op = "addModel" -> fail.rec <= Len(rows) /\ ~PathOnly(rows[fail.rec])
      [] fail.op = "style" ->
            fail.rec <= Len(rows) /\ ~PathOnly(rows[fail.rec]) /\ StyleThrows(cfg, fail.step)


(***************************************************************************)
(* update(): the synchronous part of one call.                             *)
(***************************************************************************)
\* what a call did: the pool after it, the asynchronous work it started, how it ended
Outcome(kind, h, d, cl, started, threw, loaded) ==
    [kind |-> kind, heap |-> h, downloads |-> d, clears |-> cl, started |-> started,
     threw |-> threw, loaded |-> loaded]

\* the no-data path: removeAllModels and render on every 3Dmol cell, an
\* un-awaited plugin.clear() on every Molstar cell; the call on the cell at
\* position failAt (0: none) throws
RECURSIVE ClearCells(_, _, _, _)
ClearCells(c, v, k, failAt) ==
    IF k > Len(v) \/ (failAt # 0 /\ k >= failAt) THEN c
    ELSE ClearCells(IF c[v[k]].engine = "3dmol"
                    THEN [c EXCEPT ![v[k]].models = <<>>, ![v[k]].style = <<>>]
                    ELSE c,
                    v, k + 1, failAt)

ClearTarget(c, v, k) == k \in 1..Len(v) /\ c[v[k]].engine = "3dmol"

UpdateNoData(h, d, cl, fail) ==
    LET failAt == IF fail.op = "removeAllModels" THEN fail.rec ELSE 0
        reached == IF failAt = 0 THEN Len(h.viewers) ELSE failAt - 1
    IN  Outcome("nodata",
                [h EXCEPT !.cells = ClearCells(h.cells, h.viewers, 1, failAt)],
                d,
                cl \cup {h.viewers[k] : k \in {j \in 1..reached :
                                                  h.cells[h.viewers[j]].engine = "molstar"}},
                {}, failAt # 0, {})

\* a call of updateWithMolstar in flight: where it waits (pc), the record it is at
\* (i), the engine instance it waits for (obj; 0: undefined)
Task(e, rows, cfg, pc, i, obj) ==
    [epoch |-> e, rows |-> rows, cfg |-> cfg, pc |-> pc, i |-> i, obj |-> obj,
     loaded |-> {}, fail |-> NoFail]

\* the growth loop of setupViewerGridMolstar up to its await: the container is
\* attached and createMolstarPlugin is called
BeginPlugin(h, e) ==
    Heap(h.viewers, Append(h.cells, NewCell("molstar", "pending", e)),
         Append(h.grid, Len(h.cells) + 1))

\* updateWithMolstar up to its first await
Grown(cut, d, cl, rows, cfg, e) ==
    IF Len(cut.viewers) < Len(rows)
    THEN Outcome("molstar", BeginPlugin(cut, e), d, cl,
                 {Task(e, rows, cfg, "creating", 0, Len(cut.cells) + 1)}, FALSE, {})
    ELSE Outcome("molstar", cut, d, cl,
                 {Task(e, rows, cfg, "setupDone", 0, 0)}, FALSE, {})

UpdateMolstar(h, d, cl, rows, cfg, e) == Grown(RemoveExcess(h, Len(rows)), d, cl, rows, cfg, e)

Returned(r, cl) == Outcome("3dmol", r.heap, r.downloads, cl, {}, r.threw, r.loaded)

Update3Dmol(h, d, cl, rows, cfg, e, fail) ==
    Returned(updateWith3Dmol(h, d, rows, cfg, e, fail), cl)

\* a body of update() that treats a table without valid records as no data
DispatchClearsWithoutRecords(h, d, cl, viewerEngine, dataView, rows, cfg, e, fail) ==
    IF NoData(dataView) THEN UpdateNoData(h, d, cl, fail)
    ELSE IF NoProteinColumn(dataView) THEN Outcome("nocolumn", h, d, cl, {}, FALSE, {})
    ELSE IF rows = <<>>
    THEN Outcome("novalid", UpdateNoData(h, d, cl, NoFail).heap, d, cl, {}, FALSE, {})
    ELSE IF viewerEngine = "molstar" THEN UpdateMolstar(h, d, cl, rows, cfg, e)
    ELSE Update3Dmol(h, d, cl, rows, cfg, e, fail)

\* the body of update() after the engine check; rows is the record list of the
\* data view
Dispatch(h, d, cl, viewerEngine, dataView, rows, cfg, e, fail) ==
    IF NoData(dataView) THEN UpdateNoData(h, d, cl, fail)
    ELSE IF NoProteinColumn(dataView) THEN Outcome("nocolumn", h, d, cl, {}, FALSE, {})
    ELSE IF rows = <<>> THEN Outcome("novalid", h, d, cl, {}, FALSE, {})
    ELSE IF viewerEngine = "molstar" THEN UpdateMolstar(h, d, cl, rows, cfg, e)
    ELSE Update3Dmol(h, d, cl, rows, cfg, e, fail)

\* the pool the body of update() starts from: cleared when the engine changed
EngineCheck(h, viewerEngine) ==
    IF viewerEngine # currentEngine THEN clearAllViewers(h) ELSE h

\* whether the failure of a plan happens in this call
Happens(h, viewerEngine, dataView, rows, cfg, fail) ==
    IF fail.op = "none" THEN TRUE
    ELSE IF NoData(dataView)
    THEN fail.op = "removeAllModels" /\ ClearTarget(h.cells, h.viewers, fail.rec)
    ELSE IF NoProteinColumn(dataView) \/ rows = <<>> \/ viewerEngine = "molstar"
    THEN FALSE
    ELSE Happens3Dmol(h, rows, cfg, fail)

\* the state after a call whose outcome is o
Commit(viewerEngine, rows, fail, o) ==
    /\ epoch' = epoch + 1
    /\ currentEngine' = viewerEngine
    /\ viewers' = o.heap.viewers
    /\ cells' = o.heap.cells
    /\ gridContainer' = o.heap.grid
    /\ downloads' = o.downloads
    /\ clears' = o.clears
    /\ tasks' = tasks \cup o.started
    /\ faults' = faults + (IF fail.op # "none" THEN 1 ELSE 0)
    /\ last' = [epoch |-> epoch + 1, engine |-> viewerEngine, kind |-> o.kind,
                rows |-> rows, switched |-> viewerEngine # currentEngine,
                before |-> viewers, threw |-> o.threw]
    /\ done' = IF o.kind = "molstar" THEN done
               ELSE [epoch |-> epoch + 1, kind |-> o.kind, count |-> Len(rows),
                     fail |-> fail, threw |-> o.threw, loaded |-> o.loaded]

\* update() on the pool h left by the engine check
UpdateFrom(h, viewerEngine, dataView, rows, cfg, fail) ==
    /\ Happens(h, viewerEngine, dataView, rows, cfg, fail)
    /\ Commit(viewerEngine, rows, fail,
              Dispatch(h, downloads, clears, viewerEngine, dataView, rows, cfg, epoch + 1, fail))

\* update() on the state of the visual
UpdateVisual(viewerEngine, dataView, cfg, fail) ==
    /\ epoch < MaxUpdates
    /\ fail.op # "none" => faults < MaxFaults
    /\ UpdateFrom(EngineCheck(Heap(viewers, cells, gridContainer), viewerEngine),
                  viewerEngine, dataView, Extracted[dataView], cfg, fail)

Update(viewerEngine, dataView, cfg, fail) ==
    /\ UpdateVisual(viewerEngine, dataView, cfg, fail)
    /\ UNCHANGED probe

(***************************************************************************)
(* updateWithMolstar after its first await: one action per continuation.   *)
(***************************************************************************)
\* how a call of updateWithMolstar ended
Ended(t, threw) ==
    [epoch |-> t.epoch, kind |-> "molstar", count |-> Len(t.rows), fail |-> t.fail,
     threw |-> threw, loaded |-> t.loaded]

Failed(t, op, rec) ==
    IF t.fail = NoFail THEN [t EXCEPT !.fail = [op |-> op, rec |-> rec, step |-> 0]] ELSE t

\* the record loop reaches record i: the title is set and the load is called, which
\* runs up to its await of plugin.clear(); past the last record the call returns;
\* with no cell at the index, reading cell.plugin throws outside any try
StartRecord(t, i, c) ==
    IF i > Len(t.rows)
    THEN /\ tasks' = tasks \ {t}
         /\ done' = Ended(t, FALSE)
         /\ cells' = c
    ELSE IF i > Len(viewers)
    THEN /\ tasks' = tasks \ {t}
         /\ done' = Ended(t, TRUE)
         /\ cells' = c
    ELSE /\ tasks' = (tasks \ {t})
                     \cup {[t EXCEPT !.pc = "clearing", !.i = i,
                                     !.obj = IF c[viewers[i]].engine = "molstar"
                                             THEN viewers[i] ELSE 0,
                                     !.loaded = @ \cup {i}]}
         /\ done' = done
         /\ cells' = [c EXCEPT ![viewers[i]].title = t.rows[i].title,
                               ![viewers[i]].owner = <<t.epoch, i>>]

\* createMolstarPlugin resolves: the background is set, the cell is pushed, and
\* the growth loop goes on to its next await or ends
CreatePluginDone(t) ==
    LET made == [cells EXCEPT ![t.obj].instance = "live",
                              ![t.obj].backgroundColor = t.cfg.backgroundColor]
        h    == Heap(Append(viewers, t.obj), made, gridContainer)
        more == Len(h.viewers) < Len(t.rows)
        next == IF more THEN BeginPlugin(h, t.epoch) ELSE h
    IN  /\ t.pc = "creating"
        /\ viewers' = next.viewers
        /\ cells' = next.cells
        /\ gridContainer' = next.grid
        /\ tasks' = (tasks \ {t})
                    \cup {IF more THEN [t EXCEPT !.obj = Len(made) + 1]
                          ELSE [t EXCEPT !.pc = "setupDone", !.obj = 0]}
        /\ UNCHANGED <<currentEngine, downloads, clears, epoch, last, done, faults, probe>>

\* createMolstarPlugin rejects (plugin.init fails, or initViewerAsync gives false):
\* setupViewerGridMolstar and updateWithMolstar reject with it
CreatePluginFail(t) ==
    /\ t.pc = "creating"
    /\ faults < MaxFaults
    /\ cells' = [cells EXCEPT ![t.obj].instance = "failed"]
    /\ tasks' = tasks \ {t}
    /\ done' = Ended(Failed(t, "createPlugin", Len(viewers) + 1), TRUE)
    /\ faults' = faults + 1
    /\ UNCHANGED <<viewers, currentEngine, gridContainer, downloads, clears, epoch, last, probe>>

\* the await of setupViewerGridMolstar returns
SetupResume(t) ==
    /\ t.pc = "setupDone"
    /\ StartRecord(t, 1, cells)
    /\ UNCHANGED <<viewers, currentEngine, gridContainer, downloads, clears, epoch, last,
                   faults, probe>>

\* plugin.clear() of a load resolves
ClearDone(t) ==
    /\ t.pc = "clearing"
    /\ t.obj # 0
    /\ cells' = [cells EXCEPT ![t.obj].models = <<>>]
    /\ tasks' = (tasks \ {t}) \cup {[t EXCEPT !.pc = "loading"]}
    /\ UNCHANGED <<viewers, currentEngine, gridContainer, downloads, clears, epoch, last,
                   done, faults, probe>>

\* plugin.clear() of a load rejects, or plugin is undefined: caught, next record
ClearFail(t) ==
    /\ t.pc = "clearing"
    /\ t.obj # 0 => faults < MaxFaults
    /\ StartRecord(Failed(t, "clear", t.i), t.i + 1, cells)
    /\ faults' = faults + (IF t.obj # 0 THEN 1 ELSE 0)
    /\ UNCHANGED <<viewers, currentEngine, gridContainer, downloads, clears, epoch, last, probe>>

\* a load after which the record loop takes the same record again
LoadRepeats(t) ==
    /\ t.pc = "loading"
    /\ StartRecord(t, t.i, cells)
    /\ UNCHANGED <<viewers, currentEngine, gridContainer, downloads, clears, epoch, last,
                   faults, probe>>

\* the data is fetched or taken, parsed and its preset applied: next record
LoadDone(t) ==
    /\ t.pc = "loading"
    /\ StartRecord(t, t.i + 1, [cells EXCEPT ![t.obj].models = Append(@, ModelOf(t.rows[t.i]))])
    /\ UNCHANGED <<viewers, currentEngine, gridContainer, downloads, clears, epoch, last,
                   faults, probe>>

\* the fetch, the parse or the preset rejects: caught, next record
LoadFail(t) ==
    /\ t.pc = "loading"
    /\ faults < MaxFaults
    /\ StartRecord(Failed(t, "load", t.i), t.i + 1, cells)
    /\ faults' = faults + 1
    /\ UNCHANGED <<viewers, currentEngine, gridContainer, downloads, clears, epoch, last, probe>>

\* an un-awaited plugin.clear() of the no-data path resolves
PluginCleared(id) ==
    /\ id \in clears
    /\ clears' = clears \ {id}
    /\ cells' = [cells EXCEPT ![id].models = <<>>]
    /\ UNCHANGED <<viewers, currentEngine, gridContainer, tasks, downloads, epoch, last,
                   done, faults, probe>>

(***************************************************************************)
(* $3Dmol.download: the fetch completes later; the engine adds the model   *)
(* to the viewer it was given and calls the callback, which styles it.     *)
(***************************************************************************)
DownloadDone(d, failStep) ==
    /\ d \in downloads
    /\ failStep = 0 \/ (StyleThrows(d.cfg, failStep) /\ faults < MaxFaults)
    /\ downloads' = downloads \ {d}
    /\ cells' = [cells EXCEPT
                   ![d.viewer] = Styled([@ EXCEPT !.models = Append(@, d.model)],
                                        d.cfg, failStep)]
    /\ faults' = faults + (IF failStep # 0 THEN 1 ELSE 0)
    /\ UNCHANGED <<viewers, currentEngine, gridContainer, tasks, clears, epoch, last, done, probe>>

\* the fetch fails: the callback is never called
DownloadFail(d) ==
    /\ d \in downloads
    /\ faults < MaxFaults
    /\ downloads' = downloads \ {d}
    /\ faults' = faults + 1
    /\ UNCHANGED <<viewers, currentEngine, gridContainer, cells, tasks, clears, epoch, last,
                   done, probe>>

(***************************************************************************)
(* The specification.                                                      *)
(***************************************************************************)
\* the visual after its constructor
Constructed ==
    /\ viewers = <<>>
    /\ currentEngine = "3dmol"
    /\ gridContainer = <<>>
    /\ cells = <<>>
    /\ tasks = {}
    /\ downloads = {}
    /\ clears = {}
    /\ epoch = 0
    /\ last = [epoch |-> 0, engine |-> "3dmol", kind |-> "none", rows |-> <<>>,
               switched |-> FALSE, before |-> <<>>, threw |-> FALSE]
    /\ done = [epoch |-> 0, kind |-> "none", count |-> 0, fail |-> NoFail,
               threw |-> FALSE, loaded |-> {}]
    /\ faults = 0

Init == Constructed /\ probe = NoProbe

Next ==
    \/ \E viewerEngine \in Engines, dataView \in DataViews, cfg \in Settings,
          fail \in Failures : Update(viewerEngine, dataView, cfg, fail)
    \/ \E t \in tasks : CreatePluginDone(t)
    \/ \E t \in tasks : CreatePluginFail(t)
    \/ \E t \in tasks : SetupResume(t)
    \/ \E t \in tasks : ClearDone(t)
    \/ \E t \in tasks : ClearFail(t)
    \/ \E t \in tasks : LoadDone(t)
    \/ \E t \in tasks : LoadFail(t)
    \/ \E id \in clears : PluginCleared(id)
    \/ \E d \in downloads, failStep \in 0..MaxFailStep : DownloadDone(d, failStep)
    \/ \E d \in downloads : DownloadFail(d)

Spec == Init /\ [][Next]_vars

\* no asynchronous work is pending
Quiescent == tasks = {} /\ downloads = {} /\ clears = {}

(***************************************************************************)
(* The properties of the pool.                                             *)
(***************************************************************************)
\* a step of update(), and one that reached the engine dispatch
UpdateStep == epoch' = epoch + 1

Dispatched == {"3dmol", "molstar"}

\* C1: once an update and all the work it started have finished, and no other
\* update is in flight (no engine call having failed), the pool holds as many
\* cells as that update extracted valid records, also when it extracted none or
\* carried no rows.
C1_PoolSizeIsRecordCount ==
    (Quiescent /\ faults = 0 /\ last.epoch > 0) => Len(viewers) = Len(last.rows)

\* C2: after an update that selected another engine and had at least one valid
\* record has finished (no engine call having failed), every cell the pool held before it is out of the pool
\* and disposed, and the pool holds exactly one cell per record, each created
\* by this update and tagged with the new engine.
C2_EngineSwitchRebuildsPool ==
    (Quiescent /\ faults = 0 /\ last.switched /\ last.kind \in Dispatched)
    => /\ \A id \in Range(last.before) : id \notin Range(viewers) /\ cells[id].disposed
       /\ Len(viewers) = Len(last.rows)
       /\ \A id \in Range(viewers) :
             cells[id].born = last.epoch /\ cells[id].engine = last.engine

\* C3: every engine instance that was created and is not held by a pool cell
\* has been disposed, and its container is detached from the grid.
C3_NoInstanceLeaks ==
    \A id \in 1..Len(cells) :
        (cells[id].instance = "live" /\ id \notin Range(viewers))
        => (cells[id].disposed /\ id \notin Range(gridContainer))

\* C4: when an update of the same engine finds more cells in the pool than it
\* has records (m cells, n records), the pool after its reconcile is the first n
\* cells of the pool before it: the same objects, with the same engine
\* instances, not disposed, not recreated, still attached to the grid.
C4_ShrinkKeepsPrefix ==
    [][(UpdateStep /\ ~last'.switched /\ last'.kind \in Dispatched
          /\ Len(viewers) > Len(last'.rows))
       => /\ viewers' = SubSeq(viewers, 1, Len(last'.rows))
          /\ \A k \in 1..Len(last'.rows) :
                /\ ~cells'[viewers[k]].disposed
                /\ cells'[viewers[k]].instance = cells[viewers[k]].instance
                /\ cells'[viewers[k]].engine = cells[viewers[k]].engine
                /\ cells'[viewers[k]].born = cells[viewers[k]].born
                /\ viewers[k] \in Range(gridContainer')]_vars

\* a shrink has just happened: the last update kept its engine, found more cells
\* than records, and the pool is the kept prefix, without the cell that was last
C4_ShrinkHappened ==
    /\ last.kind \in Dispatched
    /\ ~last.switched
    /\ Len(last.rows) >= 1
    /\ Len(last.before) > Len(last.rows)
    /\ viewers = SubSeq(last.before, 1, Len(last.rows))
    /\ last.before[Len(last.before)] \notin Range(viewers)
    /\ last.before[Len(last.before)] \notin Range(gridContainer)

\* C5: when an engine call made while clearing, loading or styling a record
\* fails, the update that made it still processes every one of its records and
\* ends without an exception or a rejected promise.
C5_RecordFailureIsCaught ==
    (done.kind \in Dispatched
       /\ done.fail.op \in {"removeAllModels", "download", "addModel", "style", "clear", "load"})
    => (~done.threw /\ done.loaded = 1..done.count)

\* C6: when the creation of the engine instance of a new cell fails, the update
\* still ends without an exception or a rejected promise and processes every
\* one of its records.
C6_CreationFailureIsIsolated ==
    (done.kind \in Dispatched /\ done.fail.op \in {"createViewer", "createPlugin"})
    => (~done.threw /\ done.loaded = 1..done.count)

\* C7: a continuation of an asynchronous load changes what its target cell
\* holds only if, when it fires, that cell is in the pool and still belongs to
\* the record of the update the load was issued for.
C7_ContinuationsAreGuarded ==
    [][/\ \A d \in downloads :
             (d \notin downloads' /\ cells'[d.viewer] # cells[d.viewer])
             => (d.viewer \in Range(viewers) /\ cells[d.viewer].owner = <<d.epoch, d.rec>>)
       /\ \A t \in tasks :
             (t \notin tasks' /\ t.pc \in {"clearing", "loading"} /\ t.obj # 0
                /\ cells'[t.obj].models # cells[t.obj].models)
             => (t.obj \in Range(viewers) /\ cells[t.obj].owner = <<t.epoch, t.i>>)]_vars

\* C8: once all pending work has finished (no engine call having failed), each
\* cell below the record count of the latest update shows the title and, as its
\* only content, the structure of the record of the latest update at its index.
C8_CellsShowLatestRecords ==
    (Quiescent /\ faults = 0 /\ last.kind \in Dispatched)
    => \A i \in 1..Len(last.rows) :
          /\ i <= Len(viewers)
          /\ cells[viewers[i]].title = last.rows[i].title
          /\ cells[viewers[i]].models = <<ModelOf(last.rows[i])>>

\* C9: the pool changes only in the step of an update() call, never in work
\* that runs after update() has returned.
C9_PoolChangesOnlyInUpdate ==
    [][viewers' # viewers => UpdateStep]_vars

\* C10: an update whose input is absent (no data view, no rows, no usable
\* structure column) returns without an exception, and when it returns no cell
\* of the pool holds loaded content.
C10_AbsentInputClearsPool ==
    [][(UpdateStep /\ last'.kind \in {"nodata", "nocolumn"})
       => (~last'.threw /\ \A id \in Range(viewers') : cells'[id].models = <<>>)]_vars

(***************************************************************************)
(* The grid template of setupViewerGrid3Dmol and setupViewerGridMolstar.   *)
(* A JavaScript number is an integer, NaN or an infinity.                  *)
(***************************************************************************)
\* the largest record count and column preference the template is computed for
MaxCount == 16
MaxColumns == 3

Whole(v) == [kind |-> "int", v |-> v]
NaN == [kind |-> "nan", v |-> 0]
Infinity == [kind |-> "inf", v |-> 1]

\* Math.ceil(Math.sqrt(count)) for a count >= 0
CeilSqrt(count) ==
    CHOOSE k \in 0..count : k * k >= count /\ (k = 0 \/ (k - 1) * (k - 1) < count)

\* Math.ceil(count / cols) for count >= 0 and cols >= 0: 0 / 0 is NaN, n / 0 is Infinity
CeilDiv(count, cols) ==
    IF cols = 0 THEN (IF count = 0 THEN NaN ELSE Infinity)
    ELSE Whole((count + cols - 1) \div cols)

\* a * b, a - 1, a >= n and a < n on JavaScript numbers (n, and the v of a, integers;
\* the infinity is positive); every comparison with NaN is false
JsTimes(n, a) ==
    IF a.kind = "int" THEN Whole(n * a.v)
    ELSE IF a.kind = "nan" \/ n = 0 THEN NaN
    ELSE IF n > 0 THEN Infinity
    ELSE [kind |-> "inf", v |-> -1]

JsMinusOne(a) == IF a.kind = "int" THEN Whole(a.v - 1) ELSE a

JsAtLeast(a, n) == (a.kind = "int" /\ a.v >= n) \/ (a.kind = "inf" /\ a.v > 0)

JsLess(a, n) == (a.kind = "int" /\ a.v < n) \/ (a.kind = "inf" /\ a.v < 0)

\* cols and rows as the grid template is given them
gridTemplate(count, columns) ==
    [cols |-> IF columns > 0 THEN columns ELSE CeilSqrt(count),
     rows |-> CeilDiv(count, IF columns > 0 THEN columns ELSE CeilSqrt(count))]

\* the template is computed for a count and a column preference
InitGrid ==
    /\ Constructed
    /\ probe \in {[op |-> "grid", count |-> count, columns |-> columns, computed |-> FALSE,
                   cols |-> 0, rows |-> Whole(0)] :
                     count \in 0..MaxCount, columns \in 0..MaxColumns}

Layout ==
    /\ probe.op = "grid"
    /\ ~probe.computed
    /\ probe' = [probe EXCEPT !.computed = TRUE,
                              !.cols = gridTemplate(probe.count, probe.columns).cols,
                              !.rows = gridTemplate(probe.count, probe.columns).rows]
    /\ UNCHANGED <<viewers, currentEngine, gridContainer, cells, tasks, downloads, clears,
                   epoch, last, done, faults>>

SpecGrid == InitGrid /\ [][Layout]_vars

MaxChars == 3

\* quotes, a letter, a blank, the backslash and the n of an escape, a control
\* character, a carriage return
SanitizerChars == {"DQ", "SQ", "A", " ", "BSL", "n", "NUL", "CR"}

InitSanitize ==
    /\ Constructed
    /\ probe \in {[op |-> "sanitize", x |-> x, passes |-> 0, once |-> <<>>, twice |-> <<>>] :
                     x \in SeqsUpTo(SanitizerChars, MaxChars)}

SanitizeOnce ==
    /\ probe.op = "sanitize"
    /\ probe.passes = 0
    /\ probe' = [probe EXCEPT !.passes = 1, !.once = normalizePdbData(probe.x)]
    /\ UNCHANGED <<viewers, currentEngine, gridContainer, cells, tasks, downloads, clears,
                   epoch, last, done, faults>>

SanitizeAgain ==
    /\ probe.op = "sanitize"
    /\ probe.passes = 1
    /\ probe' = [probe EXCEPT !.passes = 2, !.twice = normalizePdbData(probe.once)]
    /\ UNCHANGED <<viewers, currentEngine, gridContainer, cells, tasks, downloads, clears,
                   epoch, last, done, faults>>

SpecSanitize == InitSanitize /\ [][SanitizeOnce \/ SanitizeAgain]_vars

\* C12: the sanitizer is idempotent: applied to its own result it returns that
\* result unchanged, for every text, also one with nested surrounding quotes,
\* literal backslash escapes or control characters.
C12_SanitizeIsIdempotent ==
    (probe.op = "sanitize" /\ probe.passes = 2) => probe.twice = probe.once

(***************************************************************************)
(* detectFormat applied to texts made of marker lines, under a hint.       *)
(***************************************************************************)
\* the most lines of a text made from LineKinds
MaxLines == 3

LineKinds == {"atom_site", "loop", "tripos", "v2000", "count", "cubefile", "atom",
              "grid", "other"}

\* the line of each kind
LineText(kind) ==
    CASE kind = "atom_site" -> StrAtomSite
      [] kind = "loop"      -> StrLoop
      [] kind = "tripos"    -> StrTriposUpper \o StrATOM
      [] kind = "v2000"     -> <<" ">> \o StrV2000
      [] kind = "count"     -> <<"1", "2", " ">>
      [] kind = "cubefile"  -> StrCubeFile
      [] kind = "atom"      -> StrATOM \o <<" ", " ", " ", "1">>
      [] kind = "grid"      -> <<" ", "1", " ", "0", ".", "0", " ", "-", "0", ".", "5", " ",
                                 "0", ".", "0">>
      [] kind = "tripos_mixed" -> <<"@", "<", "T", "r", "i", "p", "o", "s", ">">>
      [] kind = "tripos_lower" -> StrTriposLower \o ToLowerCase(StrATOM)
      [] kind = "hetatm"    -> StrHETATM \o <<" ", "2">>
      [] kind = "v3000"     -> StrV3000
      [] kind = "mend"      -> StrMEnd
      [] OTHER              -> <<"z", "z">>

\* the lines joined by line feeds
RECURSIVE JoinLines(_)
JoinLines(kinds) ==
    IF kinds = <<>> THEN <<>>
    ELSE IF Len(kinds) = 1 THEN LineText(kinds[1])
    ELSE LineText(kinds[1]) \o <<"LF">> \o JoinLines(Tail(kinds))

\* texts of more than six lines, with and without a grid line at index 2
LongSamples ==
    {<<"other", "other", "grid", "other", "other", "other", "other">>,
     <<"other", "grid", "other", "other", "other", "other", "other">>,
     <<"count", "other", "grid", "other", "other", "other", "atom">>,
     <<"atom", "other", "grid", "other", "other", "other", "atom">>}

\* hints as a format cell may hold them, each with the tag it spells once
\* trimmed and lower-cased, or with the empty tag when it spells none
HintSamples ==
    << [hint |-> <<>>,                                 tag |-> <<>>],
       [hint |-> <<"f", "o", "o">>,                    tag |-> <<>>],
       [hint |-> <<"m", "o", "l">>,                    tag |-> <<>>],
       [hint |-> <<"p", "d", "b", "x">>,               tag |-> <<>>],
       [hint |-> <<" ">>,                              tag |-> <<>>],
       [hint |-> <<"m", "o", "l", "2">>,               tag |-> FmtMol2],
       [hint |-> <<" ", "M", "O", "L", "2", "LF">>,    tag |-> FmtMol2],
       [hint |-> <<"P", "d", "b">>,                    tag |-> FmtPdb],
       [hint |-> <<"TAB", "x", "y", "z">>,             tag |-> FmtXyz],
       [hint |-> <<"C", "U", "B", "E", " ">>,          tag |-> FmtCube],
       [hint |-> <<"c", "i", "f">>,                    tag |-> FmtCif],
       [hint |-> <<"S", "d", "F">>,                    tag |-> FmtSdf] >>

\* texts with the mol2 marker written in mixed case
MixedCaseSamples == {<<"tripos_mixed">>, <<"other", "tripos_mixed", "atom">>}

InitClassify ==
    /\ Constructed
    /\ probe \in {[op |-> "classify", kinds |-> kinds, hint |-> h, computed |-> FALSE,
                   format |-> <<>>] :
                     kinds \in SeqsUpTo(LineKinds, MaxLines) \cup LongSamples
                                 \cup MixedCaseSamples,
                     h \in 1..Len(HintSamples)}

Classify ==
    /\ probe.op = "classify"
    /\ ~probe.computed
    /\ probe' = [probe EXCEPT !.computed = TRUE,
                              !.format = detectFormat(JoinLines(probe.kinds),
                                                      HintSamples[probe.hint].hint)]
    /\ UNCHANGED <<viewers, currentEngine, gridContainer, cells, tasks, downloads, clears,
                   epoch, last, done, faults>>

SpecClassify == InitClassify /\ [][Classify]_vars

Classified == probe.op = "classify" /\ probe.computed

HasKind(kinds, S) == \E k \in 1..Len(kinds) : kinds[k] \in S

\* C13: for every text and every hint that, trimmed and lower-cased, is one of
\* the six tags, the classifier returns that tag whatever the text contains.
C13_HintOverridesContent ==
    (Classified /\ HintSamples[probe.hint].tag # <<>>)
    => probe.format = HintSamples[probe.hint].tag

\* a padded upper-case mol2 hint given with a text that carries a cif marker
C13_HintOverrodeCif ==
    /\ Classified
    /\ probe.hint = 7
    /\ HasKind(probe.kinds, {"atom_site"})
    /\ probe.format = FmtMol2

\* the tag of the first rule, in the fixed order, that a text of these lines meets
FirstRule(kinds) ==
    IF HasKind(kinds, {"atom_site", "loop"}) THEN FmtCif
    ELSE IF HasKind(kinds, {"tripos"}) THEN FmtMol2
    ELSE IF HasKind(kinds, {"v2000"}) THEN FmtSdf
    ELSE IF Len(kinds) >= 2 /\ kinds[1] = "count" THEN FmtXyz
    ELSE IF HasKind(kinds, {"cubefile"}) \/ (Len(kinds) > 6 /\ kinds[3] = "grid") THEN FmtCube
    ELSE FmtPdb

\* C14: the classifier always returns one of the six tags, and with no
\* recognized hint it returns the tag of the first matching rule in the order
\* cif markers, mol2 marker, sdf markers, numeric first line, cube, pdb
\* keyword, else pdb, also for a text that meets several rules.
C14_FirstRuleWins ==
    Classified
    => /\ probe.format \in SUPPORTED_FORMATS
       /\ HintSamples[probe.hint].tag = <<>> => probe.format = FirstRule(probe.kinds)

\* a text with an sdf marker, a cube marker and a pdb keyword line, no hint
C14_SeveralRulesMet ==
    /\ Classified
    /\ HintSamples[probe.hint].hint = <<"f", "o", "o">>
    /\ probe.kinds = <<"atom", "cubefile", "v2000">>
    /\ probe.format = FmtSdf

NoHint == HintSamples[probe.hint].hint = <<>>

\* C15: with no hint the classifier returns cif for a text containing
\* '_atom_site.', mol2 for '@<TRIPOS>ATOM', sdf for 'V2000', xyz for an
\* all-digit first line and at least 3 lines, cube for 'CUBE FILE', and pdb for
\* a line starting with 'ATOM', provided the text meets no earlier rule.
C15_SampleTextsGetTheirTag ==
    (Classified /\ NoHint)
    => /\ HasKind(probe.kinds, {"atom_site"}) => probe.format = FmtCif
       /\ (HasKind(probe.kinds, {"tripos"})
             /\ ~HasKind(probe.kinds, {"atom_site", "loop"}))
          => probe.format = FmtMol2
       /\ (HasKind(probe.kinds, {"v2000"})
             /\ ~HasKind(probe.kinds, {"atom_site", "loop", "tripos"}))
          => probe.format = FmtSdf
       /\ (Len(probe.kinds) >= 3 /\ probe.kinds[1] = "count"
             /\ ~HasKind(probe.kinds, {"atom_site", "loop", "tripos", "v2000"}))
          => probe.format = FmtXyz
       /\ (HasKind(probe.kinds, {"cubefile"})
             /\ ~HasKind(probe.kinds, {"atom_site", "loop", "tripos", "v2000"})
             /\ ~(Len(probe.kinds) >= 2 /\ probe.kinds[1] = "count"))
          => probe.format = FmtCube
       /\ (HasKind(probe.kinds, {"atom"})
             /\ ~HasKind(probe.kinds, {"atom_site", "loop", "tripos", "v2000", "cubefile"})
             /\ ~(Len(probe.kinds) >= 2 /\ probe.kinds[1] = "count")
             /\ ~(Len(probe.kinds) > 6 /\ probe.kinds[3] = "grid"))
          => probe.format = FmtPdb

\* a three-line text with a numeric first line and a pdb keyword line, no hint
C15_CountLineText ==
    /\ Classified
    /\ NoHint
    /\ probe.kinds = <<"count", "other", "atom">>
    /\ probe.format = FmtXyz

(***************************************************************************)
(* The row loop of update() applied to tables of sample rows.              *)
(***************************************************************************)
StrBogus == <<"F", "o", "o", " ">>

\* sample rows by name: the structure, format and file-path cells of each, and
\* how the row loop can use it: by its text, by its path, or not at all
RowSamples ==
    [a |-> [structure |-> TextA,                  format |-> Null,     filePath |-> Null,
            by |-> "text"],
     b |-> [structure |-> Null,                   format |-> Null,     filePath |-> PathP,
            by |-> "path"],
     c |-> [structure |-> <<>>,                   format |-> Null,     filePath |-> Null,
            by |-> "none"],
     d |-> [structure |-> StrNull,                format |-> Null,     filePath |-> <<>>,
            by |-> "none"],
     e |-> [structure |-> <<" ">> \o StrUndefined \o <<"LF">>, format |-> FmtPdb,
            filePath |-> Null,                    by |-> "none"],
     f |-> [structure |-> <<"z", "z">>,           format |-> Null,     filePath |-> PathP,
            by |-> "none"],
     g |-> [structure |-> StrUndefined,           format |-> StrBogus, filePath |-> PathP,
            by |-> "path"],
     h |-> [structure |-> <<" ">> \o TextA,       format |-> StrBogus, filePath |-> <<" ">>,
            by |-> "text"],
     i |-> [structure |-> <<" ", "TAB">>,         format |-> Null,     filePath |-> <<" ">>,
            by |-> "none"],
     j |-> [structure |-> StrAtomSite,            format |-> <<" ", "M", "O", "L", "2">>,
            filePath |-> PathP,                   by |-> "text"],
     k |-> [structure |-> <<"z", "z">>,           format |-> FmtPdb,   filePath |-> PathP,
            by |-> "none"]]

RowNames == DOMAIN RowSamples

\* the cells of a sample row under StandardColumns; its title cell is its name
RowCells(name) ==
    <<RowSamples[name].structure, <<name>>, RowSamples[name].format, RowSamples[name].filePath>>

\* column lists: every role tagged; no file-path role; no structure role, so
\* that the first column is taken
ColumnSamples ==
    {StandardColumns,
     <<{"proteinData"}, {"titleData"}, {"formatData"}, {}>>,
     <<{}, {"titleData"}, {"formatData"}, {"filePathData"}>>}

NonEmptySeqsUpTo(S, n) == SeqsUpTo(S, n) \ {<<>>}

InitExtract ==
    /\ Constructed
    /\ probe \in {[op |-> "extract", columns |-> columns, rows |-> rows, computed |-> FALSE,
                   records |-> <<>>, loads |-> <<>>] :
                     columns \in ColumnSamples, rows \in NonEmptySeqsUpTo(RowNames, MaxRows)}

\* the load issued for each record by the record loop of the engine
Loads(records) == [k \in 1..Len(records) |-> ModelOf(records[k])]

Extracting(p, records) ==
    [p EXCEPT !.computed = TRUE, !.records = records, !.loads = Loads(records)]

\* the row loop, then the loads of the dispatched records
Extract ==
    /\ probe.op = "extract"
    /\ ~probe.computed
    /\ probe' = Extracting(probe,
                           validRows(probe.columns,
                                     [k \in 1..Len(probe.rows) |-> RowCells(probe.rows[k])]))
    /\ UNCHANGED <<viewers, currentEngine, gridContainer, cells, tasks, downloads, clears,
                   epoch, last, done, faults>>

Extractions == probe.op = "extract" /\ probe.computed

\* the title of each record: the name of the row it was made from
RecordTitles == [k \in 1..Len(probe.records) |-> probe.records[k].title[1]]

HasPathColumn == \E k \in 1..Len(probe.columns) : "filePathData" \in probe.columns[k]

\* the structure cell, stringified and trimmed, is empty, 'null' or 'undefined',
\* and the file-path cell is absent or empty
Malformed(name) ==
    /\ LET text == IF RowSamples[name].structure = Null THEN StrNull
                   ELSE Trim(RowSamples[name].structure)
       IN  text \in {<<>>, StrNull, StrUndefined}
    /\ \/ ~HasPathColumn
       \/ RowSamples[name].filePath \in {Null, <<>>}

SpecExtract == InitExtract /\ [][Extract]_vars

\* C16: a row whose structure cell, stringified and trimmed, is empty, 'null'
\* or 'undefined', and whose file-path cell is absent or empty, never appears
\* in the record list.
C16_MalformedRowsAreLeftOut ==
    Extractions
    => \A k \in 1..Len(probe.rows) :
          Malformed(probe.rows[k])
          => \A r \in 1..Len(probe.records) : RecordTitles[r] # probe.rows[k]

\* a padded 'undefined' cell in front of a usable row: only the second is kept
C16_UndefinedRowLeftOut ==
    /\ Extractions
    /\ probe.columns = StandardColumns
    /\ probe.rows = <<"e", "a">>
    /\ RecordTitles = <<"a">>

\* C17: every record in the list has a non-empty structure text or a
\* non-empty file path.
C17_RecordsHaveTextOrPath ==
    Extractions
    => \A r \in 1..Len(probe.records) :
          probe.records[r].structure # <<>> \/ probe.records[r].filePath # <<>>

\* a record kept for its path alone, and one kept for its text alone
C17_PathOnlyAndTextOnly ==
    /\ Extractions
    /\ Len(probe.records) = 2
    /\ probe.records[1].structure = <<>> /\ probe.records[1].filePath = PathP
    /\ probe.records[2].structure = TextA /\ probe.records[2].filePath = <<>>

\* the row is one the loop pushes a record for
Qualifies(name) ==
    \/ RowSamples[name].by = "text"
    \/ RowSamples[name].by = "path" /\ HasPathColumn

\* C18: the record list is a subsequence of the input rows in input order:
\* the qualifying rows keep their relative order and duplicate rows are each
\* kept.
C18_RecordsKeepRowOrder ==
    Extractions => RecordTitles = SelectSeq(probe.rows, Qualifies)

\* the same row given twice yields two equal records
C18_DuplicateRowKeptTwice ==
    /\ Extractions
    /\ probe.rows = <<"b", "b">>
    /\ Len(probe.records) = 2
    /\ probe.records[1] = probe.records[2]

\* C19: every load issued to an engine carries a format that is one of the six
\* tags, whatever the format cell of the row holds, and for a record with a
\* path and no text the extension classifier gives the format whenever the
\* hint is not one of the tags.
C19_LoadsCarryATag ==
    Extractions
    => \A k \in 1..Len(probe.loads) :
          /\ probe.loads[k].format \in SUPPORTED_FORMATS
          /\ (PathOnly(probe.records[k]) /\ probe.records[k].format \notin SUPPORTED_FORMATS)
             => probe.loads[k].format = detectFormatFromPath(probe.records[k].filePath)

(***************************************************************************)
(* update() under the 3Dmol engine with the formatting settings varied.    *)
(***************************************************************************)
StyleOptions == {"cartoon", "stick", "line", "cross", "sphere", "surface"}

ColorSchemeOptions == {"chain", "residue", "spectrum", "ss", "default"}

\* every colour scheme with and without the surface overlay and the rotation;
\* every style; custom chain colours; a custom surface colour
StyleSettings ==
    {[DefaultSettings EXCEPT !.colorScheme = cs, !.showSurface = sf, !.spin = sp] :
        cs \in ColorSchemeOptions, sf \in BOOLEAN, sp \in BOOLEAN}
    \cup {[DefaultSettings EXCEPT !.style = st] : st \in StyleOptions}
    \cup {[DefaultSettings EXCEPT !.useCustomChainColors = TRUE, !.colorScheme = "residue",
                                  !.showSurface = TRUE, !.surfaceColorScheme = "custom"]}
    \cup {[DefaultSettings EXCEPT !.useCustomChainColors = TRUE]}

\* tables of one or two records with inline text, and one with a path only
StyleViews ==
    {[present |-> TRUE, columns |-> StandardColumns, rows |-> r] :
        r \in {<<RowA>>, <<RowA, RowA>>, <<RowP>>}}

\* no failure, addModel throwing, the first call of the style application throwing
StyleFailures ==
    {NoFail, [op |-> "addModel", rec |-> 1, step |-> 0], [op |-> "style", rec |-> 1, step |-> 1]}

InitStyle == Constructed /\ probe = [op |-> "style", cfg |-> DefaultSettings]

\* update() with the settings it read kept in probe
StyledUpdate(dataView, cfg, fail) ==
    /\ probe.op = "style"
    /\ UpdateVisual("3dmol", dataView, cfg, fail)
    /\ probe' = [probe EXCEPT !.cfg = cfg]

NextStyle ==
    \/ \E dataView \in StyleViews, cfg \in StyleSettings, fail \in StyleFailures :
          StyledUpdate(dataView, cfg, fail)
    \/ \E d \in downloads, failStep \in 0..MaxFailStep : DownloadDone(d, failStep)
    \/ \E d \in downloads : DownloadFail(d)

SpecStyle == InitStyle /\ [][NextStyle]_vars

\* the names of the engine calls in a style log
CallNames(style) == [k \in 1..Len(style) |-> style[k].fn]

\* the engine colour scheme of each colour scheme option
MappedScheme ==
    [chain |-> "chain", residue |-> "amino", spectrum |-> "spectrum", ss |-> "ssJmol",
     default |-> "none"]

\* record i of the update just made has inline text and was loaded and styled
\* without a failure
LoadedInline(i) ==
    /\ i \in done'.loaded
    /\ ~PathOnly(last'.rows[i])
    /\ ~(done'.fail.rec = i /\ done'.fail.op \in {"addModel", "style"})

\* what the engine of a cell holds after clear, load, style, surface, zoomTo,
\* spin, render were called on it in that order
InOrder(cell, row, cfg) ==
    /\ cell.models = <<ModelOf(row)>>
    /\ cell.surfaces = (IF cfg.showSurface THEN 1 ELSE 0)
    /\ CallNames(cell.style)
         = (IF cfg.useCustomChainColors THEN [k \in 1..6 |-> "setStyle"] ELSE <<"setStyle">>)
           \o (IF cfg.showSurface THEN <<"addSurface">> ELSE <<>>)
           \o <<"zoomTo", "spin", "render">>
    /\ \A k \in 1..Len(cell.style) :
          cell.style[k].fn = "setStyle"
          => cell.style[k].conf.colorscheme = MappedScheme[cfg.colorScheme]

\* C20: for a record with inline text that loads without failure under the
\* 3Dmol engine, the calls on the engine of its cell within the update are, in
\* order: clear models and surfaces, load the model, set the primary style with
\* the mapped colour scheme (chain to chain, residue to amino, spectrum to
\* spectrum, ss to ssJmol, default to none), add the surface if enabled, zoomTo,
\* spin, render.
C20_LoadStyleRenderInOrder ==
    [][(UpdateStep /\ probe.op = "style" /\ last'.kind = "3dmol")
       => \A i \in 1..Len(last'.rows) :
             LoadedInline(i) => InOrder(cells'[viewers'[i]], last'.rows[i], probe'.cfg)]_vars

\* a second update has restyled a cell that already held a model: by residue,
\* with the surface overlay
C20_CellRestyled ==
    /\ probe.op = "style"
    /\ epoch = 2
    /\ last.kind = "3dmol"
    /\ last.rows = Extracted[[present |-> TRUE, columns |-> StandardColumns, rows |-> <<RowA>>]]
    /\ done.fail = NoFail
    /\ probe.cfg.colorScheme = "residue" /\ probe.cfg.showSurface
    /\ ~probe.cfg.useCustomChainColors
    /\ Len(viewers) = 1
    /\ cells[viewers[1]].born = 1
    /\ cells[viewers[1]].models = <<ModelOf(last.rows[1])>>
    /\ CallNames(cells[viewers[1]].style) = <<"setStyle", "addSurface", "zoomTo", "spin", "render">>
    /\ cells[viewers[1]].style[1].conf.colorscheme = "amino"

\* the style calls of a log that are restricted to the selection sel
StyleCallsOn(style, sel) == {k \in 1..Len(style) : style[k].fn = "setStyle" /\ style[k].sel = sel}

\* one style call per declared chain, coloured by the override colour of the
\* chain alone, and none on the unrestricted selection
ChainColoured(cell, cfg) ==
    /\ \A k \in 1..Len(Chains) :
          /\ Cardinality(StyleCallsOn(cell.style, Chains[k])) = 1
          /\ \A n \in StyleCallsOn(cell.style, Chains[k]) :
                /\ cell.style[n].conf.color = cfg.chainColorMap[Chains[k]]
                /\ cell.style[n].conf.colorscheme = "none"
    /\ StyleCallsOn(cell.style, "all") = {}

\* C21: when custom chain colours are enabled, style application makes for
\* each declared chain exactly one style call restricted to that chain, whose
\* colour configuration is the override colour of the chain and not the global
\* colour scheme, and makes no style call on the unrestricted selection.
C21_ChainColoursOverrideScheme ==
    [][(UpdateStep /\ probe.op = "style" /\ last'.kind = "3dmol"
          /\ probe'.cfg.useCustomChainColors)
       => \A i \in 1..Len(last'.rows) :
             LoadedInline(i) => ChainColoured(cells'[viewers'[i]], probe'.cfg)]_vars

\* C22: with no recognized hint and no cif marker in the text, the classifier
\* returns mol2 for a text containing '@<TRIPOS>' in any letter case, for
\* example '@<Tripos>'.
C22_TriposInAnyCase ==
    (Classified /\ HintSamples[probe.hint].tag = <<>>
       /\ HasKind(probe.kinds, {"tripos", "tripos_mixed"})
       /\ ~HasKind(probe.kinds, {"atom_site", "loop"}))
    => probe.format = FmtMol2

(***************************************************************************)
(* isValidStructureData applied to texts made of marker lines, under a     *)
(* hint.                                                                   *)
(***************************************************************************)
ValidKinds == LineKinds \cup {"tripos_mixed", "tripos_lower", "hetatm", "v3000", "mend"}

InitValid ==
    /\ Constructed
    /\ probe \in {[op |-> "valid", kinds |-> kinds, hint |-> h, computed |-> FALSE,
                   sanitized |-> <<>>, valid |-> FALSE] :
                     kinds \in SeqsUpTo(ValidKinds, MaxLines) \cup LongSamples,
                     h \in 1..Len(HintSamples)}

Validated(p, data, providedFormat) ==
    [p EXCEPT !.computed = TRUE,
              !.sanitized = normalizePdbData(data),
              !.valid = isValidStructureData(data, providedFormat)]

Validate ==
    /\ probe.op = "valid"
    /\ ~probe.computed
    /\ probe' = Validated(probe, JoinLines(probe.kinds), HintSamples[probe.hint].hint)
    /\ UNCHANGED <<viewers, currentEngine, gridContainer, cells, tasks, downloads, clears,
                   epoch, last, done, faults>>

SpecValid == InitValid /\ [][Validate]_vars

\* a text of these lines meets no rule before the cube rule, and meets that
ClassifiesAsCube(kinds) ==
    /\ ~HasKind(kinds, {"atom_site", "loop", "tripos", "tripos_lower", "v2000", "v3000", "mend"})
    /\ ~(Len(kinds) >= 2 /\ kinds[1] = "count")
    /\ HasKind(kinds, {"cubefile"}) \/ (Len(kinds) > 6 /\ kinds[3] = "grid")

\* a text of these lines contains ATOM, HETATM, _atom_site., the mol2 atom
\* marker, V2000 or V3000, or has an all-digit first line and three lines, or
\* classifies as cube
AcceptedByContent(kinds) ==
    \/ HasKind(kinds, {"atom", "hetatm", "atom_site", "tripos", "tripos_lower", "v2000", "v3000"})
    \/ Len(kinds) >= 3 /\ kinds[1] = "count"
    \/ ClassifiesAsCube(kinds)

\* C23: under a hint that is one of the six tags a text is accepted exactly
\* when its sanitized form is longer than 10 characters, whatever it contains;
\* otherwise exactly when the sanitized text contains ATOM, HETATM,
\* _atom_site., the mol2 atom marker, V2000 or V3000, or has an all-digit first
\* line with at least 3 lines, or classifies as cube.
C23_ValidityRule ==
    (probe.op = "valid" /\ probe.computed)
    => probe.valid = (IF HintSamples[probe.hint].tag # <<>>
                      THEN Len(probe.sanitized) > 10
                      ELSE AcceptedByContent(probe.kinds))

\* a text of eleven characters without any atom marker, accepted under a
\* padded upper-case mol2 hint
C23_LongTextTrustedUnderHint ==
    /\ probe.op = "valid" /\ probe.computed
    /\ probe.hint = 7
    /\ probe.kinds = <<"loop", "loop">>
    /\ Len(probe.sanitized) = 11
    /\ probe.valid

\* the structure cell of a sample row holds text
TextPresent(name) ==
    /\ RowSamples[name].structure # Null
    /\ Trim(RowSamples[name].structure) \notin {<<>>, StrNull, StrUndefined}

\* the file-path cell of a sample row holds a path
PathGiven(name) ==
    /\ HasPathColumn
    /\ RowSamples[name].filePath # Null
    /\ Trim(RowSamples[name].filePath) # <<>>

\* the text of a sample row fails the validity check under the hint of the row
FailsValidity(name) ==
    ~isValidStructureData(Trim(RowSamples[name].structure),
                          IF RowSamples[name].format = Null THEN <<>>
                          ELSE ToLowerCase(Trim(RowSamples[name].format)))

RowKept(name) == \E r \in 1..Len(probe.records) : RecordTitles[r] = name

BackgroundSettings ==
    {DefaultSettings, [DefaultSettings EXCEPT !.backgroundColor = "#000000"]}

BackgroundViews ==
    {[present |-> TRUE, columns |-> StandardColumns, rows |-> r] :
        r \in {<<RowA>>, <<RowA, RowA>>}}

InitBackground == Constructed /\ probe = [op |-> "background", cfg |-> DefaultSettings]

\* update() delivered once the earlier call has run to its end, with the
\* settings it read kept in probe
BackgroundUpdate(viewerEngine, dataView, cfg) ==
    /\ probe.op = "background"
    /\ Quiescent
    /\ UpdateVisual(viewerEngine, dataView, cfg, NoFail)
    /\ probe' = [probe EXCEPT !.cfg = cfg]

NextBackground ==
    \/ \E viewerEngine \in Engines, dataView \in BackgroundViews, cfg \in BackgroundSettings :
          BackgroundUpdate(viewerEngine, dataView, cfg)
    \/ \E t \in tasks : CreatePluginDone(t)
    \/ \E t \in tasks : SetupResume(t)
    \/ \E t \in tasks : ClearDone(t)
    \/ \E t \in tasks : LoadDone(t)

SpecBackground == InitBackground /\ [][NextBackground]_vars

\* the grid setup of the latest update has returned
ReconcileDone ==
    /\ last.kind \in {"3dmol", "molstar"}
    /\ ~last.threw
    /\ \A t \in tasks : t.epoch = last.epoch => t.pc # "creating"

\* C25: on every reconcile, for either engine and also when the pool size does
\* not change, the configured background colour is applied to the engine of
\* every cell in the pool, so a cell reused from an earlier update shows the
\* new background colour.
C25_BackgroundReapplied ==
    (probe.op = "background" /\ ReconcileDone)
    => \A k \in 1..Len(viewers) :
          cells[viewers[k]].backgroundColor = probe.cfg.backgroundColor

\* the style log of a cell has a call fn with the geometry geom
HasCall(cell, fn, geom) ==
    \E k \in 1..Len(cell.style) : cell.style[k].fn = fn /\ cell.style[k].geom = geom

\* C26: when the primary style option is 'surface', style application sets
\* cartoon geometry and also requests a Van der Waals surface overlay on the
\* engine of the cell, whether or not the showSurface option is enabled.
C26_SurfaceStyleAddsOverlay ==
    [][(UpdateStep /\ probe.op = "style" /\ last'.kind = "3dmol"
          /\ probe'.cfg.style = "surface")
       => \A i \in 1..Len(last'.rows) :
             LoadedInline(i)
             => /\ HasCall(cells'[viewers'[i]], "setStyle", "cartoon")
                /\ HasCall(cells'[viewers'[i]], "addSurface", "VDW")
                /\ cells'[viewers'[i]].surfaces = 1]_vars

\* C27: geometry never stacks in a cell: for any sequence of updates, also
\* updates issued while a file or URL load of an earlier update for the same
\* cell is in flight, once all pending loads have completed the engine of each
\* cell holds at most one model.
C27_AtMostOneModel ==
    (probe.op = "none" /\ Quiescent /\ faults = 0)
    => \A k \in 1..Len(viewers) : Len(cells[viewers[k]].models) <= 1

\* C28: file and URL loads do not block, for either engine: within one update
\* the processing of record i+1 starts without waiting for the load of a
\* path-only record i to complete, so that a load that never completes does
\* not keep the later records from being loaded.
C28_PathLoadsDoNotBlock ==
    (probe.op = "none" /\ faults = 0)
    => /\ \A d \in downloads :
             d.epoch = done.epoch => done.loaded = 1..done.count
       /\ \A t \in tasks :
             (t.pc = "loading" /\ PathOnly(t.rows[t.i]) /\ t.i < Len(t.rows))
             => (t.i + 1) \in t.loaded

\* the names of all style steps under the settings cfg, in order
StyleStepNames(cfg) ==
    (IF cfg.useCustomChainColors THEN [k \in 1..6 |-> "setStyle"] ELSE <<"setStyle">>)
    \o (IF cfg.showSurface THEN <<"addSurface">> ELSE <<>>)
    \o <<"zoomTo", "spin", "render">>

\* C29: formatting is never partially applied to a cell: for each record of an
\* update either all style steps (primary style, surface overlay when enabled,
\* camera fit, spin, render) are performed on its cell or none is, also when
\* one of the engine calls fails part-way.
C29_StyleAllOrNothing ==
    [][(UpdateStep /\ probe.op = "none" /\ last'.kind = "3dmol")
       => \A i \in done'.loaded :
             ~PathOnly(last'.rows[i])
             => \/ cells'[viewers'[i]].style = <<>>
                \/ CallNames(cells'[viewers'[i]].style) = StyleStepNames(DefaultSettings)]_vars

(***************************************************************************)
(* A row with inline text from its validity check to its load.             *)
(***************************************************************************)
FmtMmcif == <<"m", "m">> \o FmtCif

FmtMol == <<"m", "o", "l">>

\* the format name handed to plugin.builders.structure.parseTrajectory
getMolstarFormat(format) ==
    LET lower == ToLowerCase(format)
    IN  IF lower \in {FmtCif, FmtMmcif} THEN FmtMmcif
        ELSE IF lower = FmtMol2 THEN FmtMol2
        ELSE IF lower \in {FmtSdf, FmtMol} THEN FmtSdf
        ELSE IF lower = FmtXyz THEN FmtXyz
        ELSE FmtPdb

\* the hints a format cell is given in these loads: none, 'foo', 'mol2', 'cif'
LoadHints == {1, 2, 6, 11}

\* the cell text: the lines, between double quotes or not
CellOf(kinds, quoted) ==
    IF quoted THEN <<"DQ">> \o JoinLines(kinds) \o <<"DQ">> ELSE JoinLines(kinds)

InitLoad ==
    /\ Constructed
    /\ probe \in {[op |-> "load", kinds |-> kinds, quoted |-> q, hint |-> h, engine |-> e,
                   computed |-> FALSE, valid |-> FALSE, examined |-> <<>>, checked |-> <<>>,
                   handed |-> <<>>, used |-> <<>>] :
                     kinds \in SeqsUpTo(LineKinds, MaxLines), q \in BOOLEAN,
                     h \in LoadHints, e \in Engines}

\* the row loop validates structureData under format; the record loop of the
\* engine normalizes and classifies the structure of the record and loads it
Loaded(p, structureData, format) ==
    [p EXCEPT !.computed = TRUE,
              !.valid = Present(structureData) /\ isValidStructureData(structureData, format),
              !.examined = normalizePdbData(structureData),
              !.checked = detectFormat(normalizePdbData(structureData), format),
              !.handed = TextModel(normalizePdbData(structureData), format).data,
              !.used = IF p.engine = "molstar"
                       THEN getMolstarFormat(TextModel(normalizePdbData(structureData),
                                                       format).format)
                       ELSE TextModel(normalizePdbData(structureData), format).format]

LoadInline ==
    /\ probe.op = "load"
    /\ ~probe.computed
    /\ probe' = Loaded(probe, Trim(CellOf(probe.kinds, probe.quoted)),
                       ToLowerCase(Trim(HintSamples[probe.hint].hint)))
    /\ UNCHANGED <<viewers, currentEngine, gridContainer, cells, tasks, downloads, clears,
                   epoch, last, done, faults>>

SpecLoad == InitLoad /\ [][LoadInline]_vars

\* C30: for every record with inline text, the string handed to the load of
\* the engine is exactly the sanitized string that the classifier examined,
\* and the format tag used for the load equals the tag computed for the same
\* row during validation.
C30_LoadUsesWhatWasValidated ==
    (probe.op = "load" /\ probe.computed /\ probe.valid)
    => /\ probe.handed = probe.examined
       /\ probe.used = probe.checked

(***************************************************************************)
(* Column resolution of update() and the path that returns when no column  *)
(* can hold structure data.                                                *)
(***************************************************************************)
\* C31: an update whose table has no column that can hold structure data
\* (RoleIndex finds none and there is no first column to fall back on)
\* produces no records and leaves the pool as it was.
C31_NoColumnLeavesPool ==
    [][(UpdateStep /\ last'.kind = "nocolumn")
       => (last'.rows = <<>> /\ viewers' = viewers)]_vars

(***************************************************************************)
(* The source of each load in the record loops.                            *)
(***************************************************************************)
\* C32: a record made from a row with valid structure text is loaded from
\* that text (sanitized), also when the row gives a file path; a load from a
\* file or URL is issued only for a record whose row had no structure text.
C32_TextBeforePath ==
    Extractions
    => \A k \in 1..Len(probe.records) :
          /\ (TextPresent(RecordTitles[k]) /\ ~FailsValidity(RecordTitles[k]))
             => /\ probe.loads[k].source = "text"
                /\ probe.loads[k].data
                     = normalizePdbData(Trim(RowSamples[RecordTitles[k]].structure))
          /\ probe.loads[k].source = "url" => ~TextPresent(RecordTitles[k])

\* a row with valid text and a path, loaded from its text
C32_TextAndPathLoadsText ==
    /\ Extractions
    /\ probe.columns = StandardColumns
    /\ probe.rows = <<"j", "b">>
    /\ TextPresent("j") /\ ~FailsValidity("j") /\ PathGiven("j")
    /\ Len(probe.loads) = 2
    /\ probe.loads[1].source = "text"
    /\ probe.loads[2].source = "url"

(***************************************************************************)
(* Calls of updateWithMolstar that overlap.                                *)
(***************************************************************************)
Larger(a, b) == IF a >= b THEN a ELSE b

\* C33: while two calls of updateWithMolstar are in flight, the pool never
\* holds more cells than the larger of their two record counts.
C33_GrowthLoopsShareTheCount ==
    \A t \in tasks, u \in tasks :
        t.epoch # u.epoch => Len(viewers) <= Larger(Len(t.rows), Len(u.rows))

\* C34: every cell of the pool carries the tag of the active engine.
C34_PoolCellsOfActiveEngine ==
    \A k \in 1..Len(viewers) : cells[viewers[k]].engine = currentEngine

\* the step in which plugin.clear() of a load has resolved and the data, parse
\* and preset calls of loadStructureInMolstar are made on the plugin of t
LoadIssued(t) ==
    /\ t.pc = "clearing" /\ t.obj # 0
    /\ \E u \in tasks' : u.epoch = t.epoch /\ u.pc = "loading"

\* the step in which those calls put the structure into the plugin of t
LoadApplied(t) ==
    /\ t.pc = "loading"
    /\ cells'[t.obj].models # cells[t.obj].models

\* C35: no load is issued on, and none takes effect in, a Mol* engine instance
\* that has been disposed.
C35_NoUseAfterDispose ==
    [][\A t \in tasks : (LoadIssued(t) \/ LoadApplied(t)) => ~cells[t.obj].disposed]_vars

\* C36: when no update work is pending, the containers attached to the grid
\* are the containers of the pool cells, in pool order.
C36_GridHoldsThePool ==
    Quiescent => gridContainer = viewers

(***************************************************************************)
(* The return of update() when no row of the table gave a record.          *)
(***************************************************************************)
\* C37: an update that selects the engine already active and whose table has
\* rows of which none gives a valid record leaves the pool, the grid and every
\* cell (engine content, style, title) as they were.
C37_NoValidRecordsLeavesCells ==
    [][(UpdateStep /\ last'.kind = "novalid" /\ ~last'.switched)
       => /\ viewers' = viewers
          /\ cells' = cells
          /\ gridContainer' = gridContainer]_vars

\* such an update has returned on a pool whose first cell holds a model and a
\* title
C37_ReturnedOnLoadedPool ==
    /\ last.kind = "novalid"
    /\ ~last.switched
    /\ last.rows = <<>>
    /\ last.before # <<>>
    /\ viewers = last.before
    /\ cells[viewers[1]].models # <<>>
    /\ cells[viewers[1]].title # <<>>

(***************************************************************************)
(* Termination of updateWithMolstar: Mol* updates with one to MaxLiveRows  *)
(* records, each given by a file path, are delivered at any moment, and    *)
(* every engine call that a call of updateWithMolstar awaits resolves in   *)
(* the end.                                                                *)
(***************************************************************************)
\* the largest number of records of an update
MaxLiveRows == 3

LiveViews ==
    {[present |-> TRUE, columns |-> StandardColumns, rows |-> r] :
        r \in NonEmptySeqsUpTo({RowP}, MaxLiveRows)}

InitLive == Constructed /\ probe = [op |-> "live"]

LiveUpdate(viewerEngine, dataView) ==
    /\ probe.op = "live"
    /\ epoch < MaxUpdates
    /\ UpdateFrom(EngineCheck(Heap(viewers, cells, gridContainer), viewerEngine),
                  viewerEngine, dataView, validRows(dataView.columns, dataView.rows), DefaultSettings, NoFail)
    /\ UNCHANGED probe

\* the call of updateWithMolstar made by update number e takes its next step
Continue(e) ==
    \E t \in tasks :
        /\ t.epoch = e
        /\ \/ CreatePluginDone(t)
           \/ SetupResume(t)
           \/ ClearDone(t)
           \/ LoadDone(t)

NextLive ==
    \/ \E dataView \in LiveViews : LiveUpdate("molstar", dataView)
    \/ \E e \in 1..MaxUpdates : Continue(e)

SpecLive ==
    InitLive /\ [][NextLive]_vars /\ \A e \in 1..MaxUpdates : WF_vars(Continue(e))

InFlight(e) == \E t \in tasks : t.epoch = e

\* C38: every call of updateWithMolstar settles in the end, whatever updates
\* are delivered while it is in flight.
C38_EveryMolstarUpdateSettles ==
    \A e \in 1..MaxUpdates : InFlight(e) ~> ~InFlight(e)

\* every call has settled after an update that shrank the pool while the
\* growth loop of an earlier call was suspended: the pool holds the cell that
\* loop pushed afterwards
C38_SettledAfterShrinkDuringGrowth ==
    /\ probe.op = "live"
    /\ tasks = {}
    /\ done.kind = "molstar"
    /\ last.kind = "molstar" /\ ~last.switched
    /\ Len(last.before) > Len(last.rows)
    /\ Len(viewers) > Len(last.rows)

=============================================================================
